---- MODULE Spec2Model ----
(***************************************************************************)
(* Model of the KPI formula evaluator, src/src/KPIs/formulas.py            *)
(* (FormulaParser and calculate_kpi_value).                                *)
(*                                                                         *)
(* A formula is a Python str, modelled as a sequence of characters; each   *)
(* character is a one-character string, except the non-ASCII letter        *)
(* U+017F (LATIN SMALL LETTER LONG S), which the module's lexer cannot     *)
(* hold in a string literal and which is written LongS.                    *)
(*                                                                         *)
(* A DataFrame is a function from its column names (character sequences)   *)
(* to columns; a column is a sequence of cells; a cell is <<>> when the    *)
(* value is missing (NaN) and <<v>> for the number v.                      *)
(*                                                                         *)
(* A Python float is a record: [k |-> "num", n, d] is the rational n/d in  *)
(* lowest terms with d > 0, [k |-> "nan"] is NaN and [k |-> "inf", n] is   *)
(* n * infinity (n = 1 or -1).  The cells of the model are small integers: *)
(* their sums and products are exact in double precision, and the          *)
(* quotient of two such numbers is the nearest double of the rational      *)
(* modelled here, so every order comparison made below has the same        *)
(* answer on the doubles as on the rationals.                              *)
(***************************************************************************)
EXTENDS Integers, Sequences, FiniteSets, TLC

VARIABLES df, formula, outcome, first, calls, contracts, consistency

vars == <<df, formula, outcome, first, calls, contracts, consistency>>

----------------------------------------------------------------------------
(* Characters and the str methods the evaluator uses.                      *)

LongS == "U+017F"

LowerAlpha ==
  <<"a","b","c","d","e","f","g","h","i","j","k","l","m",
    "n","o","p","q","r","s","t","u","v","w","x","y","z">>

UpperAlpha ==
  <<"A","B","C","D","E","F","G","H","I","J","K","L","M",
    "N","O","P","Q","R","S","T","U","V","W","X","Y","Z">>

DigitChars == <<"0","1","2","3","4","5","6","7","8","9">>

Range(s) == {s[i] : i \in DOMAIN s}

UpperChars == Range(UpperAlpha)

LowerOf == [c \in UpperChars |->
              LowerAlpha[CHOOSE i \in DOMAIN UpperAlpha : UpperAlpha[i] = c]]

\* str.lower() on one character: LongS has no lowercase other than itself.
LowerChar(c) == IF c \in UpperChars THEN LowerOf[c] ELSE c

lower(s) == [i \in DOMAIN s |-> LowerChar(s[i])]

\* str.isspace() on one character, as str.strip() and the regex \s use it.
SpaceChars == {" ", "\t", "\n", "\r"}

IsSpace(c) == c \in SpaceChars

\* The regex class \w on a str pattern: letters, digits and underscore.
WordChars ==
  Range(LowerAlpha) \cup Range(UpperAlpha) \cup Range(DigitChars) \cup {"_", LongS}

IsWordChar(c) == c \in WordChars

\* One pattern letter p (lowercase) against the character c under
\* re.IGNORECASE: besides the two cases of p, the letter s also matches
\* U+017F.
IgnoreCaseMatch(c, p) == LowerChar(c) = p \/ (p = "s" /\ c = LongS)

\* The literal text pat at position i of s under re.IGNORECASE.
MatchesAt(s, i, pat) ==
  /\ i + Len(pat) - 1 <= Len(s)
  /\ \A j \in DOMAIN pat : IgnoreCaseMatch(s[i + j - 1], pat[j])

\* str.strip(): s itself when neither end is whitespace
strip(s) ==
  IF s = << >> \/ (~IsSpace(s[1]) /\ ~IsSpace(s[Len(s)]))
    THEN s
  ELSE IF \A i \in DOMAIN s : IsSpace(s[i])
    THEN << >>
    ELSE LET a == CHOOSE i \in DOMAIN s :
                    ~IsSpace(s[i]) /\ \A j \in 1..(i-1) : IsSpace(s[j])
             b == CHOOSE i \in DOMAIN s :
                    ~IsSpace(s[i]) /\ \A j \in (i+1)..Len(s) : IsSpace(s[j])
         IN  SubSeq(s, a, b)

\* sub in s
Contains(s, sub) ==
  \E i \in 1..(Len(s) - Len(sub) + 1) : SubSeq(s, i, i + Len(sub) - 1) = sub

\* c in s, for one character c
HasChar(s, c) == \E i \in DOMAIN s : s[i] = c

\* str.split(sep) for a one-character separator
RECURSIVE split(_, _)
split(s, sep) ==
  IF ~HasChar(s, sep)
    THEN << s >>
    ELSE LET i == CHOOSE k \in DOMAIN s :
                    s[k] = sep /\ \A j \in 1..(k-1) : s[j] # sep
         IN  << SubSeq(s, 1, i - 1) >> \o split(SubSeq(s, i + 1, Len(s)), sep)

\* re.sub(r'distinct\s+', '', s, flags=re.IGNORECASE), scanning from i: every
\* occurrence of the word followed by at least one whitespace character is
\* removed together with all the whitespace that follows it.
Distinct == <<"d","i","s","t","i","n","c","t">>

RECURSIVE sub_distinct(_, _)
sub_distinct(s, i) ==
  IF i > Len(s)
    THEN << >>
    ELSE IF MatchesAt(s, i, Distinct) /\ i + Len(Distinct) <= Len(s)
              /\ IsSpace(s[i + Len(Distinct)])
           THEN LET from == i + Len(Distinct)
                    stop == CHOOSE k \in from..Len(s) :
                              /\ \A j \in from..k : IsSpace(s[j])
                              /\ (k = Len(s) \/ ~IsSpace(s[k + 1]))
                IN  sub_distinct(s, stop + 1)
           ELSE << s[i] >> \o sub_distinct(s, i + 1)

\* The names of the pattern of _is_aggregate_function.
Sum     == <<"s","u","m">>
Count   == <<"c","o","u","n","t">>
Avg     == <<"a","v","g">>
Mean    == <<"m","e","a","n">>
Min     == <<"m","i","n">>
Max     == <<"m","a","x">>
Nunique == <<"n","u","n","i","q","u","e">>

AggregatePattern == {Sum, Count, Avg, Mean, Min, Max, Nunique}

ALLOWED_FUNCTIONS == {Sum, Count, Avg, Mean, Min, Max, Distinct, Nunique}

\* re.match(r'^(sum|count|avg|mean|min|max|nunique)\(', f, re.IGNORECASE)
_is_aggregate_function(f) ==
  \E name \in AggregatePattern :
    /\ MatchesAt(f, 1, name)
    /\ Len(f) > Len(name)
    /\ f[Len(name) + 1] = "("

\* '/' in f
_is_ratio_formula(f) == HasChar(f, "/")

\* re.match(r'(\w+)\((.*)\)', f, re.IGNORECASE): the match starts at the first
\* character and need not reach the end of f.  \w+ takes the longest run of
\* word characters (the next character must be "(", which is none); .* is
\* greedy and does not cross a newline, so group 2 ends before the last ")"
\* of the first line.  The result is << >> when there is no match and
\* <<group 1, group 2>> otherwise.
WordRun(f) ==
  CHOOSE k \in 0..Len(f) :
    /\ \A j \in 1..k : IsWordChar(f[j])
    /\ (k = Len(f) \/ ~IsWordChar(f[k + 1]))

AggregateMatch(f) ==
  LET k      == WordRun(f)
      closes == {j \in (k + 2)..Len(f) :
                   f[j] = ")" /\ \A i \in (k + 2)..(j - 1) : f[i] # "\n"}
  IN  IF k >= 1 /\ k < Len(f) /\ f[k + 1] = "(" /\ closes # {}
        THEN LET j == CHOOSE c \in closes : \A o \in closes : o <= c
             IN  << SubSeq(f, 1, k), SubSeq(f, k + 2, j - 1) >>
        ELSE << >>

----------------------------------------------------------------------------
(* Python floats.                                                          *)

RECURSIVE GCD(_, _)
GCD(a, b) == IF b = 0 THEN a ELSE GCD(b, a % b)

Abs(x) == IF x < 0 THEN 0 - x ELSE x

Sign(x) == IF x < 0 THEN 0 - 1 ELSE 1

\* The rational n/d (d # 0) in lowest terms with a positive denominator.
Num(n, d) ==
  LET g == GCD(Abs(n), Abs(d))
  IN  [k |-> "num", n |-> (Sign(d) * n) \div g, d |-> Abs(d) \div g]

NaN == [k |-> "nan", n |-> 0, d |-> 1]

Inf(sgn) == [k |-> "inf", n |-> sgn, d |-> 1]

\* x == 0 for a float x
IsZero(x) == x.k = "num" /\ x.n = 0

\* a / b for floats, b not zero
TrueDiv(a, b) ==
  IF a.k = "nan" \/ b.k = "nan" THEN NaN
  ELSE IF a.k = "inf" /\ b.k = "inf" THEN NaN
  ELSE IF a.k = "inf" THEN Inf(a.n * Sign(b.n))
  ELSE IF b.k = "inf" THEN Num(0, 1)
  ELSE Num(a.n * b.d, a.d * b.n)

\* a <= b for floats: every comparison with NaN is false.
LessEq(a, b) ==
  IF a.k = "nan" \/ b.k = "nan" THEN FALSE
  ELSE IF a.k = "inf" THEN a.n < 0 \/ (b.k = "inf" /\ b.n > 0)
  ELSE IF b.k = "inf" THEN b.n > 0
  ELSE a.n * b.d <= b.n * a.d

\* The result of a call: a float, or the ValueError raised, named by the
\* text its message starts with.
Ok(x) == [kind |-> "value", val |-> x, err |-> ""]

Err(msg) == [kind |-> "error", val |-> NaN, err |-> msg]

DigitVal(c) == (CHOOSE i \in DOMAIN DigitChars : DigitChars[i] = c) - 1

DigitSet == Range(DigitChars)

IsDigits(s) == \A i \in DOMAIN s : s[i] \in DigitSet

RECURSIVE DigitsVal(_)
DigitsVal(s) ==
  IF s = << >> THEN 0
  ELSE 10 * DigitsVal(SubSeq(s, 1, Len(s) - 1)) + DigitVal(s[Len(s)])

RECURSIVE Pow10(_)
Pow10(e) == IF e = 0 THEN 1 ELSE 10 * Pow10(e - 1)

\* float(s) for a str s: an optional sign, then nan, inf or infinity in any
\* case, or decimal digits with at most one point and at least one digit.
\* (The exponent and digit-grouping forms of the literal are not modelled:
\* no formula of the model spells one.)
float_of_str(s0) ==
  LET s    == strip(s0)
      sgn  == IF s # << >> /\ s[1] = "-" THEN 0 - 1 ELSE 1
      body == IF s # << >> /\ s[1] \in {"+", "-"} THEN Tail(s) ELSE s
      pts  == split(body, ".")
      ip   == pts[1]
      fp   == IF Len(pts) = 2 THEN pts[2] ELSE << >>
  IN  IF lower(body) = <<"n","a","n">> THEN Ok(NaN)
      ELSE IF lower(body) \in {<<"i","n","f">>, <<"i","n","f","i","n","i","t","y">>}
        THEN Ok(Inf(sgn))
      ELSE IF Len(pts) <= 2 /\ IsDigits(ip) /\ IsDigits(fp) /\ Len(ip) + Len(fp) >= 1
        THEN Ok(Num(sgn * (DigitsVal(ip) * Pow10(Len(fp)) + DigitsVal(fp)),
                    Pow10(Len(fp))))
      ELSE Err("could not convert string to float")

----------------------------------------------------------------------------
(* The pandas operations the evaluator calls on a column.  Reductions skip *)
(* missing cells (skipna, the default).                                    *)

Present(col) == SelectSeq(col, LAMBDA c : c # << >>)

Values(col) == {c[1] : c \in Range(Present(col))}

RECURSIVE SumCells(_)
SumCells(col) ==
  IF col = << >> THEN 0 ELSE Head(col)[1] + SumCells(Tail(col))

\* Series.sum(): 0 when nothing is present
series_sum(col) == Num(SumCells(Present(col)), 1)

\* Series.count()
series_count(col) == Num(Len(Present(col)), 1)

\* Series.nunique()
series_nunique(col) == Num(Cardinality(Values(col)), 1)

\* Series.mean(): NaN when nothing is present
series_mean(col) ==
  IF Present(col) = << >> THEN NaN
  ELSE Num(SumCells(Present(col)), Len(Present(col)))

\* Series.min(), Series.max(): NaN when nothing is present
series_min(col) ==
  IF Present(col) = << >> THEN NaN
  ELSE Num(CHOOSE v \in Values(col) : \A w \in Values(col) : v <= w, 1)

series_max(col) ==
  IF Present(col) = << >> THEN NaN
  ELSE Num(CHOOSE v \in Values(col) : \A w \in Values(col) : v >= w, 1)

\* Series * Series, row by row: missing when either factor is missing
series_mul(c1, c2) ==
  [i \in DOMAIN c1 |->
     IF c1[i] = << >> \/ c2[i] = << >> THEN << >> ELSE << c1[i][1] * c2[i][1] >>]

\* frame.columns
columns(frame) == DOMAIN frame

----------------------------------------------------------------------------
(* FormulaParser.  frame is self.df.                                       *)

ColumnNotFound == "Column not found"

_execute_distinct_count(frame, expression) ==
  LET col == strip(sub_distinct(expression, 1))
  IN  IF col \notin columns(frame) THEN Err(ColumnNotFound)
      ELSE Ok(series_nunique(frame[col]))

_execute_sum(frame, expression) ==
  IF HasChar(expression, "*")
    THEN LET pieces == split(expression, "*")
             parts  == [i \in DOMAIN pieces |-> strip(pieces[i])]
         IN  IF Len(parts) # 2 THEN Err("Complex expressions not supported")
             ELSE IF parts[1] \notin columns(frame) \/ parts[2] \notin columns(frame)
               THEN Err(ColumnNotFound)
             ELSE Ok(series_sum(series_mul(frame[parts[1]], frame[parts[2]])))
    ELSE LET col == strip(expression)
         IN  IF col \notin columns(frame) THEN Err(ColumnNotFound)
             ELSE Ok(series_sum(frame[col]))

_execute_count(frame, expression) ==
  IF Contains(lower(expression), Distinct)
    THEN _execute_distinct_count(frame, expression)
    ELSE LET col == strip(expression)
         IN  IF col \notin columns(frame) THEN Err(ColumnNotFound)
             ELSE Ok(series_count(frame[col]))

\* _execute_avg with the mean taken over every row of the frame, a missing
\* product counting as a row.
_execute_avg_over_rows(frame, expression) ==
  IF HasChar(expression, "*")
    THEN LET pieces == split(expression, "*")
             parts  == [i \in DOMAIN pieces |-> strip(pieces[i])]
         IN  IF Len(parts) # 2 THEN Err("Complex expressions not supported")
             ELSE IF parts[1] \notin columns(frame) \/ parts[2] \notin columns(frame)
               THEN Err(ColumnNotFound)
             ELSE LET col == series_mul(frame[parts[1]], frame[parts[2]])
                  IN  IF col = << >> THEN Ok(NaN)
                      ELSE Ok(Num(SumCells(Present(col)), Len(col)))
    ELSE LET col == strip(expression)
         IN  IF col \notin columns(frame) THEN Err(ColumnNotFound)
             ELSE Ok(series_mean(frame[col]))

_execute_avg(frame, expression) ==
  IF HasChar(expression, "*")
    THEN LET pieces == split(expression, "*")
             parts  == [i \in DOMAIN pieces |-> strip(pieces[i])]
         IN  IF Len(parts) # 2 THEN Err("Complex expressions not supported")
             ELSE IF parts[1] \notin columns(frame) \/ parts[2] \notin columns(frame)
               THEN Err(ColumnNotFound)
             ELSE Ok(series_mean(series_mul(frame[parts[1]], frame[parts[2]])))
    ELSE LET col == strip(expression)
         IN  IF col \notin columns(frame) THEN Err(ColumnNotFound)
             ELSE Ok(series_mean(frame[col]))

\* _execute_min calling Series.max()
_execute_min_calls_max(frame, expression) ==
  LET col == strip(expression)
  IN  IF col \notin columns(frame) THEN Err(ColumnNotFound)
      ELSE Ok(series_max(frame[col]))

_execute_min(frame, expression) ==
  LET col == strip(expression)
  IN  IF col \notin columns(frame) THEN Err(ColumnNotFound)
      ELSE Ok(series_min(frame[col]))

_execute_max(frame, expression) ==
  LET col == strip(expression)
  IN  IF col \notin columns(frame) THEN Err(ColumnNotFound)
      ELSE Ok(series_max(frame[col]))

\* _execute_aggregate dispatching on the function name alone, without the
\* test for distinct in the argument.
_execute_aggregate_by_name(frame, f) ==
  LET match == AggregateMatch(f)
  IN  IF match = << >> THEN Err("Invalid aggregate formula")
      ELSE LET func_name == lower(match[1])
               args      == strip(match[2])
           IN  IF func_name \notin ALLOWED_FUNCTIONS THEN Err("Function not allowed")
               ELSE IF func_name = Sum THEN _execute_sum(frame, args)
               ELSE IF func_name \in {Count, Nunique} THEN _execute_count(frame, args)
               ELSE IF func_name \in {Avg, Mean} THEN _execute_avg(frame, args)
               ELSE IF func_name = Min THEN _execute_min(frame, args)
               ELSE IF func_name = Max THEN _execute_max(frame, args)
               ELSE Err("Unsupported function")

_execute_aggregate(frame, f) ==
  LET match == AggregateMatch(f)
  IN  IF match = << >> THEN Err("Invalid aggregate formula")
      ELSE LET func_name == lower(match[1])
               args      == strip(match[2])
           IN  IF func_name \notin ALLOWED_FUNCTIONS THEN Err("Function not allowed")
               ELSE IF Contains(lower(args), Distinct)
                 THEN _execute_distinct_count(frame, args)
               ELSE IF func_name = Sum THEN _execute_sum(frame, args)
               ELSE IF func_name \in {Count, Nunique} THEN _execute_count(frame, args)
               ELSE IF func_name \in {Avg, Mean} THEN _execute_avg(frame, args)
               ELSE IF func_name = Min THEN _execute_min(frame, args)
               ELSE IF func_name = Max THEN _execute_max(frame, args)
               ELSE Err("Unsupported function")

\* _evaluate_simple_expression trying float(expr) before the column lookup
_evaluate_number_first(frame, expr) ==
  IF _is_aggregate_function(expr) THEN _execute_aggregate(frame, expr)
  ELSE LET number == float_of_str(expr)
       IN  IF number.kind = "value" THEN number
           ELSE IF expr \in columns(frame) THEN Ok(series_sum(frame[expr]))
           ELSE Err("Cannot evaluate expression")

_evaluate_simple_expression(frame, expr) ==
  IF _is_aggregate_function(expr) THEN _execute_aggregate(frame, expr)
  ELSE IF expr \in columns(frame) THEN Ok(series_sum(frame[expr]))
  ELSE LET number == float_of_str(expr)
       IN  IF number.kind = "value" THEN number
           ELSE Err("Cannot evaluate expression")

_execute_ratio(frame, f) ==
  LET parts == split(f, "/")
  IN  IF Len(parts) # 2 THEN Err("Invalid ratio formula")
      ELSE LET num_value == _evaluate_simple_expression(frame, strip(parts[1]))
               den_value == _evaluate_simple_expression(frame, strip(parts[2]))
           IN  IF num_value.kind = "error" THEN num_value
               ELSE IF den_value.kind = "error" THEN den_value
               ELSE IF IsZero(den_value.val) THEN Ok(Num(0, 1))
               ELSE Ok(TrueDiv(num_value.val, den_value.val))

parse_and_execute(frame, formula0) ==
  LET f == strip(formula0)
  IN  IF _is_aggregate_function(f) THEN _execute_aggregate(frame, f)
      ELSE IF _is_ratio_formula(f) THEN _execute_ratio(frame, f)
      ELSE Err("Unsupported formula pattern")

----------------------------------------------------------------------------
(* The inputs of the model: DataFrames and formula texts.                  *)

MaxRows == 2

MaxVal == 1

Missing == << >>

Cells == {Missing} \cup {<< v >> : v \in 0..MaxVal}

\* Column names.  Discount is a column of no DataFrame of the model; the
\* column named "0" (Zero, below) is one whose name reads as a number.
Quantity     == <<"Q","u","a","n","t","i","t","y">>
UnitPrice    == <<"U","n","i","t","P","r","i","c","e">>
DistinctSkus == <<"D","i","s","t","i","n","c","t","S","k","u","s">>
Discount     == <<"D","i","s","c","o","u","n","t">>

Names == {Quantity, UnitPrice, DistinctSkus, Discount}

Zero == <<"0">>

Schemas == {{Quantity, UnitPrice}, {DistinctSkus}, {Zero}}

DataFrames ==
  UNION {[schema -> [1..n -> Cells]] : schema \in Schemas, n \in 0..MaxRows}

\* Formula texts.
Call(fn, args) == fn \o <<"(">> \o args \o <<")">>

Times(a, b) == a \o <<" ","*"," ">> \o b

Over(a, b) == a \o <<" ","/"," ">> \o b

Word(w, c) == w \o <<" ">> \o c

Padded(t) == <<" ">> \o t \o <<" ">>

SUM == <<"S","U","M">>

DISTINCT == <<"D","I","S","T","I","N","C","T">>

LongSum == <<LongS,"u","m">>

Foo == <<"f","o","o">>

Extra == <<" ","e","x","t","r","a">>

Two == <<"2">>

Half == <<"0",".","5">>

\* Function names outside the lowercase names of the pattern.
OtherNames == {SUM, LongSum, Foo, Distinct}

ArgTexts ==
       Names
  \cup {Padded(Quantity), << >>}
  \cup {Word(Distinct, c) : c \in Names}
  \cup {Word(DISTINCT, Quantity), Word(Distinct, Padded(UnitPrice))}
  \cup {Times(Quantity, UnitPrice), Times(UnitPrice, UnitPrice),
        Times(DistinctSkus, DistinctSkus), Times(Quantity, Discount),
        Times(Quantity, Times(UnitPrice, Quantity)),
        Quantity \o <<"*">> \o UnitPrice}

AggregateFormulas ==
       {Call(fn, a) : fn \in AggregatePattern, a \in ArgTexts}
  \cup {Call(fn, a) : fn \in OtherNames,
                      a \in {Quantity, Discount, Word(Distinct, Quantity)}}

\* Texts that start as an aggregate call and are not exactly one.
Unclosed(fn, c) == fn \o <<"(">> \o c

Trailing(fn, c) == Call(fn, c) \o Extra

MalformedFormulas ==
       {Unclosed(fn, Quantity) : fn \in AggregatePattern}
  \cup {Trailing(fn, Quantity) : fn \in AggregatePattern}
  \cup {Unclosed(Sum, Discount), Trailing(Sum, Discount),
        Call(Sum, Quantity) \o <<")">>}

Operands ==
       {Call(Sum, Quantity), Call(Count, UnitPrice), Call(Count, Discount)}
  \cup {Quantity, UnitPrice, Discount}
  \cup {Zero, Two, <<"x">>}

RatioFormulas ==
       {Over(a, b) : a, b \in Operands}
  \cup {Quantity \o <<"/">> \o UnitPrice, Over(Quantity, Over(UnitPrice, Two)),
        Over(DistinctSkus, <<"-","0">>), Over(DistinctSkus, Half),
        Over(Call(Foo, Quantity), Two), Over(<<"n","a","n">>, Zero),
        Over(Two, <<"n","a","n">>), Over(Two, <<"i","n","f">>),
        Over(<<"-","i","n","f">>, Half), Over(Two, << >>)}

TransactionValue ==
  <<"T","r","a","n","s","a","c","t","i","o","n","V","a","l","u","e">>

\* The formulas one parser evaluates in sequence.
SessionFormulas ==
  {Call(Sum, Times(Quantity, UnitPrice)), Call(Sum, TransactionValue),
   Over(Quantity, UnitPrice), Call(Count, Discount)}

OtherFormulas == {Quantity, << >>, Padded(Call(Sum, Quantity)), Two}

Formulas ==
  AggregateFormulas \cup MalformedFormulas \cup RatioFormulas \cup OtherFormulas

----------------------------------------------------------------------------
(* The program: a caller holds a DataFrame df and a FormulaParser on it   *)
(* (self.df is a reference to df, so df is the parser's whole state),      *)
(* evaluates one formula at a time and takes the result.  formula is the   *)
(* text of the call made and outcome what it returned or raised; NoCall    *)
(* when no call is outstanding.  calls counts the calls made on the        *)
(* parser and first keeps the text and the outcome of the first of them.   *)
(* contracts is the rule list of the DataValidator's data contracts and    *)
(* consistency what check_consistency returned: << >> before it has run,   *)
(* << results >> after.                                                    *)

MaxCalls == 3

NoCall == [kind |-> "none", val |-> NaN, err |-> ""]

NoFirst == [formula |-> << >>, outcome |-> NoCall]

\* df with column c set to series: df[c] = series
SetColumn(frame, c, series) ==
  [x \in DOMAIN frame \cup {c} |-> IF x = c THEN series ELSE frame[x]]

\* parse_and_execute storing the product of a two-column sum in the frame
df_after_storing_product(frame, formula0) ==
  IF /\ formula0 = Call(Sum, Times(Quantity, UnitPrice))
     /\ {Quantity, UnitPrice} \subseteq columns(frame)
  THEN SetColumn(frame, TransactionValue,
                 series_mul(frame[Quantity], frame[UnitPrice]))
  ELSE frame

\* self.df after parse_and_execute(formula0): the evaluator reads columns
\* (self.df[col], self.df.columns) and builds new Series; no statement
\* assigns to self.df or to one of its columns.
df_after_parse_and_execute(frame, formula0) == frame

Init ==
  /\ df \in DataFrames
  /\ formula = << >>
  /\ outcome = NoCall
  /\ first = NoFirst
  /\ calls = 0
  /\ contracts = << >>
  /\ consistency = << >>

\* result = parser.parse_and_execute(f), f one of texts
Evaluate(texts) ==
  /\ outcome = NoCall
  /\ calls < MaxCalls
  /\ \E f \in texts :
       /\ formula' = f
       /\ outcome' = parse_and_execute(df, f)
       /\ df' = df_after_parse_and_execute(df, f)
  /\ first' = IF calls = 0 THEN [formula |-> formula', outcome |-> outcome']
              ELSE first
  /\ calls' = calls + 1
  /\ UNCHANGED <<contracts, consistency>>

ParseAndExecute == Evaluate(Formulas)

\* The caller has used the result (or caught the error) and drops it with
\* the formula text and the parser; the next formula is evaluated by a new
\* parser.
Discard ==
  /\ outcome # NoCall
  /\ formula' = << >>
  /\ outcome' = NoCall
  /\ first' = NoFirst
  /\ calls' = 0
  /\ UNCHANGED <<df, contracts, consistency>>

Next == ParseAndExecute \/ Discard

Spec == Init /\ [][Next]_vars

\* One parser evaluating formula after formula, as the loop of the demo
\* does: the caller takes the result and keeps the parser.
SessionCall == Evaluate(SessionFormulas)

Return ==
  /\ outcome # NoCall
  /\ formula' = << >>
  /\ outcome' = NoCall
  /\ UNCHANGED <<df, first, calls, contracts, consistency>>

NextSession == SessionCall \/ Return

SpecSession == Init /\ [][NextSession]_vars

----------------------------------------------------------------------------
(* DataValidator.check_consistency on the caller's DataFrame, followed by  *)
(* KPI evaluation with calculate_kpi_value on the same DataFrame.          *)

InvoiceNo == <<"I","n","v","o","i","c","e","N","o">>

\* InvoiceNo texts of a sale and of a cancellation
Sale == <<"5","3","6">>

Cancelled == <<"C","5","3","6">>

cancellation_quantity_match == "cancellation_quantity_match"

positive_price == "positive_price"

valid_transaction_value == "valid_transaction_value"

TransactionLimit == 100000

Rule(name) == [name |-> name, description |-> "as configured"]

\* The rule lists of the data contracts the model draws from.
RuleLists ==
  {<< >>,
   <<Rule(cancellation_quantity_match), Rule(positive_price)>>,
   <<Rule(cancellation_quantity_match), Rule(positive_price),
     Rule(valid_transaction_value)>>,
   <<Rule(valid_transaction_value)>>}

\* An InvoiceNo column: sales only, or a cancellation in the first row.
InvoiceColumns(n) ==
  {[i \in 1..n |-> <<Sale>>],
   [i \in 1..n |-> IF i = 1 THEN <<Cancelled>> ELSE <<Sale>>]}

\* A retail frame: InvoiceNo, Quantity and UnitPrice, alone or with a
\* TransactionValue column loaded with no value in it.
RetailFrame(invoices, quantity, price, loaded) ==
  [c \in {InvoiceNo, Quantity, UnitPrice}
           \cup (IF loaded THEN {TransactionValue} ELSE {}) |->
     IF c = InvoiceNo THEN invoices
     ELSE IF c = Quantity THEN quantity
     ELSE IF c = UnitPrice THEN price
     ELSE [i \in DOMAIN quantity |-> Missing]]

\* series.str.startswith(prefix, na=False)
startswith(series, prefix) ==
  {i \in DOMAIN series :
     /\ series[i] # Missing
     /\ series[i][1] # << >>
     /\ series[i][1][1] = prefix}

\* (series[rows] > bound).sum() and (series < bound).sum(): a comparison
\* with a missing value is False
count_above(series, rows, bound) ==
  Cardinality({i \in rows : series[i] # Missing /\ series[i][1] > bound})

count_below(series, rows, bound) ==
  Cardinality({i \in rows : series[i] # Missing /\ series[i][1] < bound})

\* (series.abs() > bound).sum()
count_abs_above(series, bound) ==
  Cardinality({i \in DOMAIN series :
                 series[i] # Missing /\ Abs(series[i][1]) > bound})

Entry(rule, violations, total) ==
  [description |-> rule.description, violations |-> violations,
   total_checked |-> total, passes |-> violations = 0]

SetResult(results, name, entry) ==
  [x \in DOMAIN results \cup {name} |-> IF x = name THEN entry ELSE results[x]]

\* One iteration of the loop over the rules; s = [df, results].  The frames
\* of the model have the columns the rules read.
check_rule(s, rule) ==
  LET frame == s.df
      n     == Len(frame[Quantity])
  IN  IF rule.name = cancellation_quantity_match THEN
        LET cancellations == startswith(frame[InvoiceNo], "C")
        IN  [df |-> frame,
             results |-> SetResult(s.results, rule.name,
                           Entry(rule,
                                 count_above(frame[Quantity], cancellations, 0),
                                 Cardinality(cancellations)))]
      ELSE IF rule.name = positive_price THEN
        [df |-> frame,
         results |-> SetResult(s.results, rule.name,
                       Entry(rule,
                             count_below(frame[UnitPrice], 1..n, 0), n))]
      ELSE IF rule.name = valid_transaction_value THEN
        LET after == SetColumn(frame, TransactionValue,
                               series_mul(frame[Quantity], frame[UnitPrice]))
        IN  [df |-> after,
             results |-> SetResult(s.results, rule.name,
                           Entry(rule,
                                 count_abs_above(after[TransactionValue],
                                                 TransactionLimit), n))]
      ELSE s

RECURSIVE check_rules(_, _)
check_rules(s, rules) ==
  IF rules = << >> THEN s
  ELSE check_rules(check_rule(s, Head(rules)), Tail(rules))

\* check_consistency working on a copy of the DataFrame
check_consistency_on_copy(frame, rules) ==
  [df |-> frame, results |-> check_rules([df |-> frame, results |-> << >>], rules).results]

\* check_consistency(df): the DataFrame after the call and the dict returned
check_consistency(frame, rules) ==
  check_rules([df |-> frame, results |-> << >>], rules)

\* The formulas evaluated around check_consistency.
ConsistencyFormulas ==
  {Call(Sum, TransactionValue), Call(Sum, Times(Quantity, UnitPrice)),
   Call(Count, TransactionValue)}

InitConsistency ==
  /\ \E n \in 0..MaxRows :
       \E invoices \in InvoiceColumns(n), quantity, price \in [1..n -> Cells],
          loaded \in BOOLEAN :
         df = RetailFrame(invoices, quantity, price, loaded)
  /\ formula = << >>
  /\ outcome = NoCall
  /\ first = NoFirst
  /\ calls = 0
  /\ contracts \in RuleLists
  /\ consistency = << >>

\* consistency = validator.check_consistency(df)
CheckConsistency ==
  /\ outcome = NoCall
  /\ LET done == check_consistency(df, contracts)
     IN  /\ df' = done.df
         /\ consistency' = << done.results >>
  /\ UNCHANGED <<formula, outcome, first, calls, contracts>>

\* result = calculate_kpi_value(df, f): a new parser on df, one call
CalculateKpiValue == Evaluate(ConsistencyFormulas)

NextConsistency == CheckConsistency \/ CalculateKpiValue \/ Discard

SpecConsistency == InitConsistency /\ [][NextConsistency]_vars

----------------------------------------------------------------------------
(* What the claims speak of, computed from the cells and not through the   *)
(* evaluator.                                                              *)

Called == outcome # NoCall

RowCount(frame, c) == Len(frame[c])

PresentRows(frame, c) == {i \in DOMAIN frame[c] : frame[c][i] # Missing}

BothPresent(frame, c1, c2) == PresentRows(frame, c1) \cap PresentRows(frame, c2)

RECURSIVE SumOver(_, _)
SumOver(f, rows) ==
  IF rows = {} THEN 0
  ELSE LET i == CHOOSE r \in rows : TRUE IN f[i] + SumOver(f, rows \ {i})

ColumnSum(frame, c) ==
  SumOver([i \in PresentRows(frame, c) |-> frame[c][i][1]], PresentRows(frame, c))

ProductSum(frame, c1, c2) ==
  SumOver([i \in BothPresent(frame, c1, c2) |-> frame[c1][i][1] * frame[c2][i][1]],
          BothPresent(frame, c1, c2))

ColumnValues(frame, c) == {frame[c][i][1] : i \in PresentRows(frame, c)}

ColumnMin(frame, c) ==
  CHOOSE v \in ColumnValues(frame, c) : \A w \in ColumnValues(frame, c) : v <= w

ColumnMax(frame, c) ==
  CHOOSE v \in ColumnValues(frame, c) : \A w \in ColumnValues(frame, c) : v >= w

UniqueCount(frame, c) ==
  Cardinality({frame[c][i][1] : i \in PresentRows(frame, c)})

HasDistinct(text) == Contains(lower(text), Distinct)

Whole(x) == Ok(Num(x, 1))

\* The aggregate calls the ratio formulas of the model are made of.
AggregateOperands == {a \in Operands : _is_aggregate_function(a)}

----------------------------------------------------------------------------
(* C1.  A ratio of two aggregate calls whose columns exist and whose       *)
(* denominator is not 0 returns value(N) / value(D).                       *)
C1_RatioOfAggregates ==
  \A N, D \in AggregateOperands :
    LET n == parse_and_execute(df, N)
        d == parse_and_execute(df, D)
    IN  (/\ Called
         /\ formula = Over(N, D)
         /\ n.kind = "value" /\ d.kind = "value" /\ ~IsZero(d.val))
        => outcome = Ok(TrueDiv(n.val, d.val))

(* C2.  A ratio with one "/" whose denominator evaluates to 0 returns 0.0, *)
(* whatever numerator evaluates to a number: aggregate call, column name   *)
(* or numeric literal.                                                     *)
C2_ZeroDenominator ==
  \A A, B \in Operands :
    LET a == _evaluate_simple_expression(df, A)
        b == _evaluate_simple_expression(df, B)
    IN  (/\ Called
         /\ formula = Over(A, B)
         /\ a.kind = "value" /\ b.kind = "value" /\ IsZero(b.val))
        => outcome = Whole(0)

(* C3.  A call name(args) whose name is not an allowed function fails with *)
(* the error "Function ... not allowed" and no other.                      *)
C3_UnknownFunction ==
  \A fn \in OtherNames, a \in ArgTexts :
    (Called /\ formula = Call(fn, a) /\ lower(fn) \notin ALLOWED_FUNCTIONS)
      => outcome = Err("Function not allowed")

(* C4.  A formula that names a column the DataFrame does not have, as an   *)
(* aggregate argument, as a factor of a product, after distinct or as a    *)
(* ratio operand, fails and returns no number.                             *)
Referencing(c) ==
       {Call(fn, c) : fn \in AggregatePattern}
  \cup {Call(fn, Word(Distinct, c)) : fn \in AggregatePattern}
  \cup {Call(fn, Times(o, c)) : fn \in AggregatePattern, o \in Names}
  \cup {Call(fn, Times(c, o)) : fn \in AggregatePattern, o \in Names}
  \cup {Over(o, c) : o \in Operands}
  \cup {Over(c, o) : o \in Operands}

C4_AbsentColumnFails ==
  \A c \in Names \ columns(df) :
    (Called /\ formula \in Referencing(c)) => outcome.kind = "error"

ProductTexts ==
  {Call(fn, Times(c1, c2)) : fn \in {Sum, Avg, Mean}, c1, c2 \in UNION Schemas}

DistinctTexts ==
  {Call(fn, Word(w, c)) :
     fn \in {Count, Sum, Avg}, w \in {Distinct, DISTINCT}, c \in UNION Schemas}

C6_DistinctOverridesFunction ==
  formula \in DistinctTexts =>
  \A c \in columns(df), fn \in {Count, Sum, Avg}, w \in {Distinct, DISTINCT} :
    (Called /\ formula = Call(fn, Word(w, c)))
      => outcome = Whole(UniqueCount(df, c))

\* sum(distinct Quantity) on the column [1, 1]: 1 unique value, while the sum
\* is 2.
C6_Witness ==
  /\ formula = Call(Sum, Word(Distinct, Quantity))
  /\ Quantity \in columns(df)
  /\ df[Quantity] = << <<1>>, <<1>> >>
  /\ outcome = Whole(1)

(* C7 as stated.  For a column c with at least one row,                    *)
(* min(c) <= avg(c) <= max(c).                                             *)
Ordered(lo, mid, hi) ==
  /\ lo.kind = "value" /\ mid.kind = "value" /\ hi.kind = "value"
  /\ LessEq(lo.val, mid.val)
  /\ LessEq(mid.val, hi.val)

MinAvgMax(c) ==
  /\ formula = Call(Min, c)
       => Ordered(outcome, parse_and_execute(df, Call(Avg, c)),
                  parse_and_execute(df, Call(Max, c)))
  /\ formula = Call(Avg, c)
       => Ordered(parse_and_execute(df, Call(Min, c)), outcome,
                  parse_and_execute(df, Call(Max, c)))
  /\ formula = Call(Max, c)
       => Ordered(parse_and_execute(df, Call(Min, c)),
                  parse_and_execute(df, Call(Avg, c)), outcome)

C7_NonEmptyColumn ==
  \A c \in columns(df) : (Called /\ RowCount(df, c) > 0) => MinAvgMax(c)

(* C7, amended.  For a column c of integers with at least one present      *)
(* value, min(c) <= avg(c) <= max(c).                                      *)
\* The texts of min, avg and max of a column name.
MinAvgMaxTexts == {Call(fn, c) : fn \in {Min, Avg, Max}, c \in UNION Schemas}

C7_MinAvgMax ==
  formula \in MinAvgMaxTexts =>
  \A c \in columns(df) : (Called /\ PresentRows(df, c) # {}) => MinAvgMax(c)

\* avg(Quantity) on a column holding 0 and 1: strictly between min and max.
C7_Witness ==
  /\ formula = Call(Avg, Quantity)
  /\ Quantity \in columns(df)
  /\ outcome = Ok(Num(1, 2))
  /\ parse_and_execute(df, Call(Min, Quantity)) = Whole(0)
  /\ parse_and_execute(df, Call(Max, Quantity)) = Whole(1)

(* C8.  A text that begins with an aggregate name and "(" and is not       *)
(* exactly name(args), the closing parenthesis missing or followed by more *)
(* text, fails with "Invalid aggregate formula".                           *)
C8_MalformedAggregate ==
  (Called /\ formula \in MalformedFormulas)
    => outcome = Err("Invalid aggregate formula")

(* C9.  With the bare name of a column c of the DataFrame as argument,     *)
(* sum(c), min(c), max(c) and avg(c) return the sum, minimum, maximum and  *)
(* mean of the present values of c.                                        *)
C9_BareColumnDispatch ==
  \A c \in columns(df) :
    (Called /\ PresentRows(df, c) # {})
      => /\ formula = Call(Sum, c) => outcome = Whole(ColumnSum(df, c))
         /\ formula = Call(Min, c) => outcome = Whole(ColumnMin(df, c))
         /\ formula = Call(Max, c) => outcome = Whole(ColumnMax(df, c))
         /\ formula \in {Call(Avg, c), Call(Mean, c)}
              => outcome = Ok(Num(ColumnSum(df, c), Cardinality(PresentRows(df, c))))

(* C10.  count(c) and nunique(c), with the bare name of a column c of the  *)
(* DataFrame as argument, both return the number of present values of c.   *)
C10_CountAndBareNunique ==
  \A c \in columns(df) :
    (Called /\ formula \in {Call(Count, c), Call(Nunique, c)})
      => outcome = Whole(Cardinality(PresentRows(df, c)))

(* C11.  In a ratio text "A / B" that is not itself taken as an aggregate   *)
(* call, each operand is resolved in this order: an aggregate call is      *)
(* evaluated as an aggregate; else the name of a column of the DataFrame   *)
(* gives the sum of that column, also when the name reads as a number;     *)
(* else a numeric literal gives its value; else the evaluation fails with  *)
(* "Cannot evaluate expression".  The ratio is the quotient of the two,    *)
(* 0.0 when the denominator is 0, and the first failing operand's error.   *)
LiteralValue(text) ==
  IF text = Zero THEN Num(0, 1) ELSE IF text = Two THEN Num(2, 1) ELSE NaN

Resolved(frame, text) ==
  IF text \in AggregateOperands THEN parse_and_execute(frame, text)
  ELSE IF text \in DOMAIN frame THEN Whole(ColumnSum(frame, text))
  ELSE IF text \in {Zero, Two} THEN Ok(LiteralValue(text))
  ELSE Err("Cannot evaluate expression")

Quotient(a, b) ==
  IF a.kind = "error" THEN a
  ELSE IF b.kind = "error" THEN b
  ELSE IF b.val = Num(0, 1) THEN Whole(0)
  ELSE Ok(Num(a.val.n * b.val.d, a.val.d * b.val.n))

\* The ratio texts whose numerator is not an aggregate call.
OperandRatios ==
  {Over(A, B) : A \in Operands \ AggregateOperands, B \in Operands}

C12_CallsLeaveDataset ==
  [][(outcome = NoCall /\ outcome' # NoCall)
       => /\ df' = df
          /\ (formula' = first'.formula => outcome' = first'.outcome)]_vars

\* The third call on one parser repeats the first call and its value.
C12_Witness ==
  /\ calls = 3
  /\ formula = Call(Sum, Times(Quantity, UnitPrice))
  /\ first.formula = formula
  /\ outcome = first.outcome
  /\ outcome = Whole(2)

(* C13.  check_consistency changes the DataFrame only when the rule        *)
(* valid_transaction_value is configured, and then only by setting the     *)
(* column TransactionValue to Quantity * UnitPrice row by row (missing     *)
(* where a factor is missing): every other column and the rows stay.  On   *)
(* a DataFrame without the column, sum(TransactionValue) fails with        *)
(* "Column not found" before check_consistency has run; after it has run   *)
(* with the rule the formula succeeds with the value of                    *)
(* sum(Quantity * UnitPrice).                                              *)
Configured(name) == \E i \in DOMAIN contracts : contracts[i].name = name

RowProduct(frame, i) ==
  IF i \in BothPresent(frame, Quantity, UnitPrice)
  THEN << frame[Quantity][i][1] * frame[UnitPrice][i][1] >>
  ELSE Missing

ConsistencyStep ==
  consistency' # consistency /\ formula' = formula /\ outcome' = outcome

OnlyTransactionValueSet ==
  IF Configured(valid_transaction_value)
  THEN /\ DOMAIN df' = DOMAIN df \cup {TransactionValue}
       /\ \A c \in DOMAIN df \ {TransactionValue} : df'[c] = df[c]
       /\ DOMAIN df'[TransactionValue] = DOMAIN df[Quantity]
       /\ \A i \in DOMAIN df[Quantity] :
            df'[TransactionValue][i] = RowProduct(df, i)
  ELSE df' = df

SumOfTransactionValue ==
  (Called /\ formula = Call(Sum, TransactionValue))
    => /\ (consistency = << >> /\ TransactionValue \notin DOMAIN df)
            => outcome = Err(ColumnNotFound)
       /\ (consistency # << >> /\ Configured(valid_transaction_value))
            => outcome = Whole(ProductSum(df, Quantity, UnitPrice))

C13_ConsistencyAddsTransactionValue ==
  /\ [][ConsistencyStep => OnlyTransactionValueSet]_vars
  /\ []SumOfTransactionValue

\* After check_consistency with the rule, sum(TransactionValue) is 2.0 on a
\* frame of two rows whose Quantity and UnitPrice are all 1.
C13_Witness ==
  /\ consistency # << >>
  /\ Configured(valid_transaction_value)
  /\ formula = Call(Sum, TransactionValue)
  /\ df[Quantity] = << <<1>>, <<1>> >>
  /\ df[UnitPrice] = << <<1>>, <<1>> >>
  /\ outcome = Whole(2)

====
